---- MODULE Spec2Model ----
(***************************************************************************)
(* The event-driven backtester of quant_system/backtesting/event.py:       *)
(* EventBacktester.run walks the rebalance dates of a price panel, marks   *)
(* the portfolio to market day by day, and trades towards the target       *)
(* weights with slippage and commission.                                   *)
(*                                                                         *)
(* Numbers.  The code computes in floats; the model computes in exact      *)
(* rationals <<n, d>> (d > 0, lowest terms).  Target weights are integer   *)
(* multiples of the normalisation epsilon 1e-12 of line 93, so that the    *)
(* epsilon is the integer EpsUnits in weight units and                     *)
(* tw / (|tw|.sum() + 1e-12) is the exact rational k / (K + EpsUnits).     *)
(*                                                                         *)
(* Two EventBacktester instances, one per commission rate, run the same    *)
(* call (same panel, frequency and weight_func answers) in lock step, so   *)
(* that their results can be compared.                                     *)
(*                                                                         *)
(* Specifications.  Spec is the call of run on small panels; SpecScenario  *)
(* is the call on panels that rise once by 5% and 2.5%; SpecNormalise is   *)
(* the normalisation of an answer of weight_func alone; SpecHeld is the    *)
(* call up to a rebalance at which weight_func returns the weights held,   *)
(* computed over wide numbers (digit sequences) that hold weights of       *)
(* order 1; SpecAgain is the call followed by a second call on the same    *)
(* instances with the same arguments.  SpecBacktest is one call of         *)
(* Backtester.run_backtest (backtesting/vectorized.py) and SpecStress one  *)
(* call of ScenarioAnalyzer.stress_test_portfolio (risk/scenario.py).      *)
(***************************************************************************)
EXTENDS Integers, Sequences, FiniteSets

(***************************************************************************)
(* Exact rational arithmetic.                                              *)
(***************************************************************************)
Abs(n) == IF n < 0 THEN -n ELSE n

RECURSIVE GCD(_, _)
GCD(a, b) == IF b = 0 THEN a ELSE GCD(b, a % b)

\* The rational n/d in lowest terms with a positive denominator (d # 0).
Rat(n, d) ==
    LET g == GCD(Abs(n), Abs(d))
        s == IF d < 0 THEN -1 ELSE 1
    IN  <<(s * n) \div g, Abs(d) \div g>>

Zero == <<0, 1>>
One == <<1, 1>>
IntRat(n) == <<n, 1>>

RNeg(x) == <<-x[1], x[2]>>
RAbs(x) == <<Abs(x[1]), x[2]>>
RSign(x) == IF x[1] > 0 THEN 1 ELSE IF x[1] < 0 THEN -1 ELSE 0

RAdd(x, y) ==
    LET g == GCD(x[2], y[2])
    IN  Rat(x[1] * (y[2] \div g) + y[1] * (x[2] \div g), (x[2] \div g) * y[2])

RSub(x, y) == RAdd(x, RNeg(y))

RMul(x, y) ==
    LET g1 == GCD(Abs(x[1]), y[2])
        g2 == GCD(Abs(y[1]), x[2])
    IN  IF x[1] = 0 \/ y[1] = 0 THEN Zero
        ELSE <<(x[1] \div g1) * (y[1] \div g2), (x[2] \div g2) * (y[2] \div g1)>>

\* x / y for y # 0.
RDiv(x, y) == RMul(x, IF y[1] < 0 THEN <<-y[2], -y[1]>> ELSE <<y[2], y[1]>>)

RLt(x, y) == RSub(x, y)[1] < 0
RLe(x, y) == RSub(x, y)[1] <= 0

(***************************************************************************)
(* Bounds and inputs of the model.                                         *)
(***************************************************************************)
\* Calendar days are 1..MaxDay; the panel's trading dates are a subset.
MaxDay == 4

\* The instruments a panel can have besides its date column.
AllTickers == <<"AAA", "BBB">>

\* The ticker lists a panel can have: none, one or two instrument columns.
TickerLists == {<<>>, <<"AAA">>, <<"AAA", "BBB">>}

\* The rows of quoted prices a trading day can have (positive prices).
PriceRows == { [AAA |-> 1, BBB |-> 2], [AAA |-> 4, BBB |-> 1] }

\* A frequency is a period in days and an anchor: its anchor dates are the
\* calendar days congruent to the anchor modulo the period (period 1: every
\* day, as "D"; a longer period: as the weekly "W-FRI", anchored on a weekday).
Frequencies ==
    { [period |-> 1, anchor |-> 0],
      [period |-> 2, anchor |-> 0],
      [period |-> 3, anchor |-> 2] }

\* Constructor arguments (__init__, lines 20-28).
InitialCapitals == {1}
SlippageBps == {0, 5000}
CommissionBpsPairs == { <<0, 5000>>, <<5000, 7500>> }

Instances == {1, 2}

\* What weight_func can return at a rebalance date: a mapping from ticker to
\* target weight, in units of 1e-12.  The empty mapping, a mapping of zeros,
\* equal weights, one instrument only (the other is absent), a short position.
WeightMaps ==
    { <<>>,
      [AAA |-> 0, BBB |-> 0],
      [AAA |-> 1, BBB |-> 1],
      [AAA |-> 1],
      [AAA |-> -1, BBB |-> 0] }

(***************************************************************************)
(* Program constants.                                                      *)
(***************************************************************************)
\* commission_bps / 10000, slippage_bps / 10000.
BpsScale == 10000
\* The 1e-12 added to the sum of absolute weights, in weight units of 1e-12.
EpsUnits == 1
\* A trade below 1e-8 = 1 / TradeEpsDen in absolute value is skipped.
TradeEpsDen == 100000000

\* What run has returned: nothing yet, the "no result" value None, or (in
\* FinalValuation) the dict of the equity curve and the returns.
Running == [kind |-> "running"]
NoResult == [kind |-> "None"]

VARIABLES
    tickers,          \* list of the panel's columns other than "date"
    prices_pd,        \* the panel indexed by date: date -> row of prices
    frequency,        \* the rebalance frequency
    initial_capital,  \* self.initial_capital
    commission_bps,   \* instance -> the commission_bps it was built with
    slippage_bps,     \* the slippage_bps the instances were built with
    pc,               \* where run is: start, loop, mtm, rebalance, final, done
    rebalance_dates,  \* ascending sequence of rebalance dates
    idx,              \* position of the for loop in rebalance_dates
    last_date,        \* last_date
    pending,          \* the days the mark-to-market loop has still to value
    cash,             \* instance -> cash
    positions,        \* instance -> (ticker -> units held)
    equity_curve,     \* instance -> sequence of <<date, value>>
    calls,            \* the calls of weight_func so far: <<date, answer>>
    target_weights,   \* the last answer of weight_func
    tw,               \* the last normalised weights
    trades,           \* instance -> number of trades executed so far
    returned,         \* what the earlier calls of run returned, in order
    result,           \* instance -> what run returned ("running" before)
    \* vectorized.Backtester.run_backtest
    prices,           \* the prices frame: its columns and its rows in order
    signals,          \* the signals frame
    run_backtest_result,  \* what run_backtest returned ("running" before)
    \* risk.scenario.ScenarioAnalyzer.stress_test_portfolio
    weights,          \* the weights mapping
    scenario_name,    \* the scenario asked for
    stress_test_result    \* what stress_test_portfolio returned

\* The variables of EventBacktester.run.
event_vars ==
    <<tickers, prices_pd, frequency, initial_capital, commission_bps,
      slippage_bps, pc, rebalance_dates, idx, last_date, pending, cash,
      positions, equity_curve, calls, target_weights, tw, trades, returned,
      result>>

\* The variables of Backtester.run_backtest and of
\* ScenarioAnalyzer.stress_test_portfolio.
other_vars ==
    <<prices, signals, run_backtest_result, weights, scenario_name,
      stress_test_result>>

vars == <<event_vars, other_vars>>

\* Backtester and ScenarioAnalyzer are not called.
OthersIdle ==
    /\ prices = <<>>
    /\ signals = <<>>
    /\ run_backtest_result = Running
    /\ weights = <<>>
    /\ scenario_name = ""
    /\ stress_test_result = Running

inputs ==
    <<tickers, prices_pd, frequency, initial_capital, commission_bps,
      slippage_bps>>

(***************************************************************************)
(* Helpers on the panel.                                                   *)
(***************************************************************************)
Range(seq) == {seq[j] : j \in DOMAIN seq}

Min(S) == CHOOSE x \in S : \A y \in S : x <= y
Max(S) == CHOOSE x \in S : \A y \in S : y <= x

\* The elements of a finite set of integers in ascending order.
RECURSIVE Sorted(_)
Sorted(S) == IF S = {} THEN <<>> ELSE <<Min(S)>> \o Sorted(S \ {Min(S)})

\* prices_pd.index
Dates == DOMAIN prices_pd

\* The row before `date` in the sorted panel.
PrevDate(date) == Max({x \in Dates : x < date})

\* pd.date_range(index.min(), index.max(), freq=frequency).intersection(index)
RebalanceDates ==
    Sorted({x \in Min(Dates)..Max(Dates) :
                x % frequency.period = frequency.anchor} \cap Dates)

\* self.commission and self.slippage of an instance.
Commission(i) == Rat(commission_bps[i], BpsScale)
Slippage == Rat(slippage_bps, BpsScale)

(***************************************************************************)
(* The computations of run.                                                *)
(***************************************************************************)
\* sum(positions[t] * row[t] for t in tickers), over the first n tickers.
RECURSIVE HeldValue(_, _, _, _)
HeldValue(pos, row, tks, n) ==
    IF n = 0 THEN Zero
    ELSE RAdd(HeldValue(pos, row, tks, n - 1),
              RMul(pos[tks[n]], IntRat(row[tks[n]])))

\* Mutant of PortfolioValue: the cash is left out of the valuation.
HoldingsOnly(c, pos, row, tks) == HeldValue(pos, row, tks, Len(tks))

\* cash + sum(positions[t] * row[t] for t in tickers)
PortfolioValue(c, pos, row, tks) == RAdd(c, HeldValue(pos, row, tks, Len(tks)))

\* Mutant of AccrueCash: cash earns 1% a day.
AccrueCashAtRate(c) == RAdd(c, RMul(c, Rat(1, 100)))

\* cash += cash * 0  (cash earns no interest)
AccrueCash(c) == RAdd(c, RMul(c, Zero))

\* One entry of period_prices.pct_change(): the return from price a to price b.
PctChange(a, b) == RSub(Rat(b, a), One)

\* positions[t] *= 1 + row[t], for every ticker, over one day of returns.
MarkPositions(pos, prevRow, row, tks) ==
    [t \in Range(tks) |-> RMul(pos[t], RAdd(One, PctChange(prevRow[t], row[t])))]

\* target_weights.get(t, 0.0)
Get(w, t) == IF t \in DOMAIN w THEN w[t] ELSE 0

\* np.abs(tw).sum() over the first n tickers, in weight units.
RECURSIVE AbsSum(_, _, _)
AbsSum(w, tks, n) ==
    IF n = 0 THEN 0 ELSE AbsSum(w, tks, n - 1) + Abs(Get(w, tks[n]))

\* The sum of the weights of the first n tickers, signs kept.
RECURSIVE SignedSum(_, _, _)
SignedSum(w, tks, n) ==
    IF n = 0 THEN 0 ELSE SignedSum(w, tks, n - 1) + Get(w, tks[n])

\* Mutant of Normalise: the weights are divided by their sum, not by the sum
\* of their absolute values.
NormaliseSigned(w, tks) ==
    [t \in Range(tks) |-> Rat(Get(w, t), SignedSum(w, tks, Len(tks)) + EpsUnits)]

\* tw = tw / (np.abs(tw).sum() + 1e-12)
Normalise(w, tks) ==
    [t \in Range(tks) |-> Rat(Get(w, t), AbsSum(w, tks, Len(tks)) + EpsUnits)]

\* Mutant of TradesValue: the value held is not taken off the target value.
TradesValueGross(c, pos, row, w, tks) ==
    LET normalised == Normalise(w, tks)
        portfolio_value == PortfolioValue(c, pos, row, tks)
    IN  [t \in Range(tks) |-> RMul(portfolio_value, normalised[t])]

\* trades_value = portfolio_value * tw - held value, per ticker.
TradesValue(c, pos, row, w, tks) ==
    LET normalised == Normalise(w, tks)
        portfolio_value == PortfolioValue(c, pos, row, tks)
    IN  [t \in Range(tks) |->
            RSub(RMul(portfolio_value, normalised[t]),
                 RMul(pos[t], IntRat(row[t])))]

\* abs(trade_val) < 1e-8: |n| / d < 1 / TradeEpsDen, that is |n| * TradeEpsDen < d
\* (the first conjunct keeps the product within 32-bit integers).
BelowThreshold(trade_val) ==
    /\ Abs(trade_val[1]) <= trade_val[2] \div TradeEpsDen
    /\ Abs(trade_val[1]) * TradeEpsDen < trade_val[2]

\* Mutant of SlippedPrice: the price moves in the trader's favour.
SlippedPriceFavourable(quote, slip, direction) ==
    RMul(IntRat(quote), RSub(One, RMul(slip, IntRat(direction))))

\* price = current_price[t] * (1 + self.slippage * direction)
SlippedPrice(quote, slip, direction) ==
    RMul(IntRat(quote), RAdd(One, RMul(slip, IntRat(direction))))

\* Mutant of ExecTrade: the commission is credited, not charged.
ExecTradeRebate(st, t, trade_val, quote, slip, comm) ==
    IF BelowThreshold(trade_val) THEN st
    ELSE LET direction == RSign(trade_val)
             price == SlippedPrice(quote, slip, direction)
             units == RDiv(trade_val, price)
             cost == RMul(RAbs(RMul(units, price)), comm)
         IN  [cash |-> RSub(st.cash, RSub(RMul(units, price), cost)),
              positions |-> [st.positions EXCEPT ![t] = RAdd(@, units)],
              executed |-> st.executed + 1]

\* Mutant of ExecTrade: the commission is charged on the units traded, not on
\* their notional.
ExecTradeFeeOnUnits(st, t, trade_val, quote, slip, comm) ==
    IF BelowThreshold(trade_val) THEN st
    ELSE LET direction == RSign(trade_val)
             price == SlippedPrice(quote, slip, direction)
             units == RDiv(trade_val, price)
             cost == RMul(RAbs(units), comm)
         IN  [cash |-> RSub(st.cash, RAdd(RMul(units, price), cost)),
              positions |-> [st.positions EXCEPT ![t] = RAdd(@, units)],
              executed |-> st.executed + 1]

\* Mutant of ExecTrade: the trade is made at the quoted price.
ExecTradeAtQuote(st, t, trade_val, quote, slip, comm) ==
    IF BelowThreshold(trade_val) THEN st
    ELSE LET price == IntRat(quote)
             units == RDiv(trade_val, price)
             cost == RMul(RAbs(RMul(units, price)), comm)
         IN  [cash |-> RSub(st.cash, RAdd(RMul(units, price), cost)),
              positions |-> [st.positions EXCEPT ![t] = RAdd(@, units)],
              executed |-> st.executed + 1]

\* One pass of the trade loop: st is [cash, positions] before the trade of
\* ticker t, and the value is [cash, positions] after it; executed counts
\* the passes that were not skipped (line 103).
ExecTrade(st, t, trade_val, quote, slip, comm) ==
    IF BelowThreshold(trade_val) THEN st
    ELSE LET direction == RSign(trade_val)
             price == SlippedPrice(quote, slip, direction)
             units == RDiv(trade_val, price)
             cost == RMul(RAbs(RMul(units, price)), comm)
         IN  [cash |-> RSub(st.cash, RAdd(RMul(units, price), cost)),
              positions |-> [st.positions EXCEPT ![t] = RAdd(@, units)],
              executed |-> st.executed + 1]

\* The trade loop over the first n tickers.
RECURSIVE ApplyTrades(_, _, _, _, _, _, _)
ApplyTrades(st, tv, row, tks, n, slip, comm) ==
    IF n = 0 THEN st
    ELSE ExecTrade(ApplyTrades(st, tv, row, tks, n - 1, slip, comm),
                   tks[n], tv[tks[n]], row[tks[n]], slip, comm)

\* What a rebalance with a non-empty answer w does to [cash, positions].
Rebalanced(c, pos, row, w, tks, slip, comm) ==
    ApplyTrades([cash |-> c, positions |-> pos, executed |-> 0],
                TradesValue(c, pos, row, w, tks), row, tks, Len(tks), slip, comm)

\* Mutant of Curve: of two entries for one date the first appended is kept.
CurveFirstAppended(ec) ==
    [dt \in {ec[j][1] : j \in DOMAIN ec} |->
        ec[Min({j \in DOMAIN ec : ec[j][1] = dt})][2]]

\* pd.Series(dict(equity_curve)).sort_index(): one value per date, the last
\* one appended for it.
Curve(ec) ==
    [dt \in {ec[j][1] : j \in DOMAIN ec} |->
        ec[Max({j \in DOMAIN ec : ec[j][1] = dt})][2]]

\* curve.pct_change().fillna(0): 0 at the first date (and for 0/0), an
\* infinity when the previous value is 0.
Returns(curve) ==
    [dt \in DOMAIN curve |->
        IF dt = Min(DOMAIN curve) THEN Zero
        ELSE LET prev == curve[Max({x \in DOMAIN curve : x < dt})]
             IN  IF prev[1] # 0 THEN RSub(RDiv(curve[dt], prev), One)
                 ELSE IF curve[dt][1] = 0 THEN Zero
                 ELSE IF curve[dt][1] > 0 THEN "inf" ELSE "-inf"]

(***************************************************************************)
(* The state machine: one call of run on each instance.  The panel is a    *)
(* polars frame, so polars is importable and the check of line 49 passes.  *)
(***************************************************************************)
\* The panels over a set of rows: every non-empty set of trading dates, with
\* a row of prices each.
PanelsOver(rows) == UNION {[D -> rows] : D \in SUBSET (1..MaxDay) \ {{}}}

\* The state before run is called with one of the given inputs.
InitRun(tickerLists, panels, slippages, commissionPairs) ==
    /\ tickers \in tickerLists
    /\ prices_pd \in panels
    /\ frequency \in Frequencies
    /\ initial_capital \in InitialCapitals
    /\ commission_bps \in {[i \in Instances |-> pair[i]] : pair \in commissionPairs}
    /\ slippage_bps \in slippages
    /\ pc = "start"
    /\ rebalance_dates = <<>>
    /\ idx = 0
    /\ last_date = 0
    /\ pending = <<>>
    /\ cash = [i \in Instances |-> Zero]
    /\ positions = [i \in Instances |-> <<>>]
    /\ equity_curve = [i \in Instances |-> <<>>]
    /\ calls = <<>>
    /\ trades = [i \in Instances |-> 0]
    /\ returned = <<>>
    /\ OthersIdle
    /\ target_weights = <<>>
    /\ tw = <<>>
    /\ result = [i \in Instances |-> Running]

Init == InitRun(TickerLists, PanelsOver(PriceRows), SlippageBps, CommissionBpsPairs)

\* Mutant of Validate: a panel without instrument columns is not rejected.
ValidateAnyColumns ==
    /\ pc = "start"
    /\ IF RebalanceDates = <<>>
       THEN /\ result' = [i \in Instances |-> NoResult]
            /\ pc' = "done"
            /\ UNCHANGED <<rebalance_dates, idx, last_date, cash, positions,
                           equity_curve>>
       ELSE /\ rebalance_dates' = RebalanceDates
            /\ idx' = 1
            /\ cash' = [i \in Instances |-> IntRat(initial_capital)]
            /\ equity_curve' = [i \in Instances |-> <<>>]
            /\ positions' = [i \in Instances |-> [t \in Range(tickers) |-> Zero]]
            /\ last_date' = Min(Dates)
            /\ pc' = "loop"
            /\ UNCHANGED result
    /\ UNCHANGED <<trades, returned>>
    /\ UNCHANGED other_vars
    /\ UNCHANGED <<inputs, pending, calls, target_weights, tw>>

\* Mutant of Validate: an empty list of rebalance dates is not rejected.
ValidateAnyDates ==
    /\ pc = "start"
    /\ IF tickers = <<>>
       THEN /\ result' = [i \in Instances |-> NoResult]
            /\ pc' = "done"
            /\ UNCHANGED <<rebalance_dates, idx, last_date, cash, positions,
                           equity_curve>>
       ELSE /\ rebalance_dates' = RebalanceDates
            /\ idx' = 1
            /\ cash' = [i \in Instances |-> IntRat(initial_capital)]
            /\ equity_curve' = [i \in Instances |-> <<>>]
            /\ positions' = [i \in Instances |-> [t \in Range(tickers) |-> Zero]]
            /\ last_date' = Min(Dates)
            /\ pc' = "loop"
            /\ UNCHANGED result
    /\ UNCHANGED <<trades, returned>>
    /\ UNCHANGED other_vars
    /\ UNCHANGED <<inputs, pending, calls, target_weights, tw>>

\* Mutant of Validate: the cash is kept on the instance, so that a later call
\* starts with the cash the call before it ended with.
ValidateKeepsCash ==
    /\ pc = "start"
    /\ IF tickers = <<>> \/ RebalanceDates = <<>>
       THEN /\ result' = [i \in Instances |-> NoResult]
            /\ pc' = "done"
            /\ UNCHANGED <<rebalance_dates, idx, last_date, cash, positions,
                           equity_curve>>
       ELSE /\ rebalance_dates' = RebalanceDates
            /\ idx' = 1
            /\ cash' = IF returned = <<>>
                       THEN [i \in Instances |-> IntRat(initial_capital)]
                       ELSE cash
            /\ equity_curve' = [i \in Instances |-> <<>>]
            /\ positions' = [i \in Instances |-> [t \in Range(tickers) |-> Zero]]
            /\ last_date' = Min(Dates)
            /\ pc' = "loop"
            /\ UNCHANGED result
    /\ UNCHANGED <<trades, returned>>
    /\ UNCHANGED other_vars
    /\ UNCHANGED <<inputs, pending, calls, target_weights, tw>>

\* Lines 53-71: the checks of the panel, and the initial state of the loop.
Validate ==
    /\ pc = "start"
    /\ IF tickers = <<>> \/ RebalanceDates = <<>>
       THEN /\ result' = [i \in Instances |-> NoResult]
            /\ pc' = "done"
            /\ UNCHANGED <<rebalance_dates, idx, last_date, cash, positions,
                           equity_curve>>
       ELSE /\ rebalance_dates' = RebalanceDates
            /\ idx' = 1
            /\ cash' = [i \in Instances |-> IntRat(initial_capital)]
            /\ equity_curve' = [i \in Instances |-> <<>>]
            /\ positions' = [i \in Instances |-> [t \in Range(tickers) |-> Zero]]
            /\ last_date' = Min(Dates)
            /\ pc' = "loop"
            /\ UNCHANGED result
    /\ UNCHANGED <<trades, returned>>
    /\ UNCHANGED other_vars
    /\ UNCHANGED <<inputs, pending, calls, target_weights, tw>>

\* Mutant of LoopHead: the period's first row (last_date, which returns.iloc[1:]
\* drops) is valued too.
LoopHeadFromLastDate ==
    /\ pc = "loop"
    /\ IF idx > Len(rebalance_dates)
       THEN /\ pc' = "final"
            /\ UNCHANGED <<idx, pending>>
       ELSE LET d == rebalance_dates[idx]
                price_slice == {x \in Dates : x <= d}
            IN  IF Cardinality(price_slice) < 2
                THEN /\ idx' = idx + 1
                     /\ UNCHANGED <<pc, pending>>
                ELSE /\ pending' = Sorted({x \in Dates : last_date <= x /\ x <= d})
                     /\ pc' = "mtm"
                     /\ UNCHANGED idx
    /\ UNCHANGED <<trades, returned>>
    /\ UNCHANGED other_vars
    /\ UNCHANGED <<inputs, rebalance_dates, last_date, cash, positions,
                   equity_curve, calls, target_weights, tw, result>>

\* Lines 73-79: the head of the loop over the rebalance dates.  A date with
\* fewer than two rows of history is skipped; otherwise the days after
\* last_date up to the date (returns.iloc[1:]) are to be valued.
LoopHead ==
    /\ pc = "loop"
    /\ IF idx > Len(rebalance_dates)
       THEN /\ pc' = "final"
            /\ UNCHANGED <<idx, pending>>
       ELSE LET d == rebalance_dates[idx]
                price_slice == {x \in Dates : x <= d}
            IN  IF Cardinality(price_slice) < 2
                THEN /\ idx' = idx + 1
                     /\ UNCHANGED <<pc, pending>>
                ELSE /\ pending' = Sorted({x \in Dates : last_date < x /\ x <= d})
                     /\ pc' = "mtm"
                     /\ UNCHANGED idx
    /\ UNCHANGED <<trades, returned>>
    /\ UNCHANGED other_vars
    /\ UNCHANGED <<inputs, rebalance_dates, last_date, cash, positions,
                   equity_curve, calls, target_weights, tw, result>>

\* Lines 80-86: one day of the mark-to-market loop; after the last day of the
\* period, last_date = d.
MarkToMarket ==
    /\ pc = "mtm"
    /\ LET date == Head(pending)
           row == prices_pd[date]
           accrued == [i \in Instances |-> AccrueCash(cash[i])]
           \* the row before in period_prices (pct_change().fillna(0) gives
           \* the period's first row a return of 0)
           prev == IF date <= last_date THEN date ELSE PrevDate(date)
           marked == [i \in Instances |->
                        MarkPositions(positions[i], prices_pd[prev], row, tickers)]
       IN  /\ cash' = accrued
           /\ positions' = marked
           /\ equity_curve' =
                [i \in Instances |->
                    Append(equity_curve[i],
                           <<date, PortfolioValue(accrued[i], marked[i], row, tickers)>>)]
    /\ pending' = Tail(pending)
    /\ IF Tail(pending) = <<>>
       THEN /\ last_date' = rebalance_dates[idx]
            /\ pc' = "rebalance"
       ELSE UNCHANGED <<last_date, pc>>
    /\ UNCHANGED <<trades, returned>>
    /\ UNCHANGED other_vars
    /\ UNCHANGED <<inputs, rebalance_dates, idx, calls, target_weights, tw, result>>

\* Mutant of RebalanceWith: an empty answer is traded like an answer of zero
\* weights (the skip of lines 89-90 is left out).
RebalanceWithEmptyTraded(answers) ==
    /\ pc = "rebalance"
    /\ \E answer \in answers :
        LET d == rebalance_dates[idx]
            after == [i \in Instances |->
                        Rebalanced(cash[i], positions[i], prices_pd[d],
                                   answer, tickers, Slippage, Commission(i))]
        IN  /\ calls' = Append(calls, <<d, answer>>)
            /\ target_weights' = answer
            /\ tw' = IF answer = <<>> THEN tw ELSE Normalise(answer, tickers)
            /\ cash' = [i \in Instances |-> after[i].cash]
            /\ positions' = [i \in Instances |-> after[i].positions]
            /\ trades' = [i \in Instances |-> trades[i] + after[i].executed]
    /\ idx' = idx + 1
    /\ pc' = "loop"
    /\ UNCHANGED other_vars
    /\ UNCHANGED <<inputs, rebalance_dates, last_date, pending, equity_curve,
                   returned, result>>

\* Lines 88-109: the call of weight_func with the history up to the rebalance
\* date, and the trades towards its answer (none for an empty answer).
RebalanceWith(answers) ==
    /\ pc = "rebalance"
    /\ \E answer \in answers :
        LET d == rebalance_dates[idx]
            after == [i \in Instances |->
                        IF answer = <<>>
                        THEN [cash |-> cash[i], positions |-> positions[i],
                              executed |-> 0]
                        ELSE Rebalanced(cash[i], positions[i], prices_pd[d],
                                        answer, tickers, Slippage, Commission(i))]
        IN  /\ calls' = Append(calls, <<d, answer>>)
            /\ target_weights' = answer
            /\ tw' = IF answer = <<>> THEN tw ELSE Normalise(answer, tickers)
            /\ cash' = [i \in Instances |-> after[i].cash]
            /\ positions' = [i \in Instances |-> after[i].positions]
            /\ trades' = [i \in Instances |-> trades[i] + after[i].executed]
    /\ idx' = idx + 1
    /\ pc' = "loop"
    /\ UNCHANGED other_vars
    /\ UNCHANGED <<inputs, rebalance_dates, last_date, pending, equity_curve,
                   returned, result>>

\* Lines 111-118: the final valuation at the panel's last date, and the result.
FinalValuation ==
    /\ pc = "final"
    /\ LET last == Max(Dates)
           ec == [i \in Instances |->
                    Append(equity_curve[i],
                           <<last, PortfolioValue(cash[i], positions[i],
                                                  prices_pd[last], tickers)>>)]
       IN  /\ equity_curve' = ec
           /\ result' = [i \in Instances |->
                           [kind |-> "dict",
                            equity_curve |-> Curve(ec[i]),
                            returns |-> Returns(Curve(ec[i]))]]
    /\ pc' = "done"
    /\ UNCHANGED <<trades, returned>>
    /\ UNCHANGED other_vars
    /\ UNCHANGED <<inputs, rebalance_dates, idx, last_date, pending, cash,
                   positions, calls, target_weights, tw>>

Rebalance == RebalanceWith(WeightMaps)

Next == Validate \/ LoopHead \/ MarkToMarket \/ Rebalance \/ FinalValuation

Spec == Init /\ [][Next]_vars

(***************************************************************************)
(* The runs on panels of two instruments that rise once, by 5% and by 2.5%, *)
(* with equal-weight answers and no trading costs.                         *)
(***************************************************************************)
ScenarioRows == { [AAA |-> 20, BBB |-> 40], [AAA |-> 21, BBB |-> 41] }

ScenarioWeightMaps == { [AAA |-> 1, BBB |-> 1], [AAA |-> 2, BBB |-> 2] }

\* The panels whose prices rise: the rows of the first prices, then the rows of
\* the second.
ScenarioPanels ==
    {p \in PanelsOver(ScenarioRows) :
        \A x, y \in DOMAIN p : x < y => p[x].AAA <= p[y].AAA}

InitScenario == InitRun({AllTickers}, ScenarioPanels, {0}, { <<0, 0>> })

ScenarioRebalance == RebalanceWith(ScenarioWeightMaps)

NextScenario ==
    Validate \/ LoopHead \/ MarkToMarket \/ ScenarioRebalance \/ FinalValuation

SpecScenario == InitScenario /\ [][NextScenario]_vars

(***************************************************************************)
(* Wide numbers.  A weight of order 1 stands next to the epsilon 1e-12 in  *)
(* line 93, which 32-bit integers cannot hold in one fraction.             *)
(* A natural number is here the sequence of its digits in base 10000, the  *)
(* lowest first and the highest not 0; a wide number is <<s, n, d>>: the   *)
(* sign s (-1, 0, 1) and the fraction n / d of two natural numbers, not    *)
(* reduced.                                                                *)
(***************************************************************************)
RECURSIVE NatOf(_)
NatOf(n) == IF n = 0 THEN <<>> ELSE <<n % 10000>> \o NatOf(n \div 10000)

RECURSIVE NatTrim(_)
NatTrim(a) ==
    IF a = <<>> THEN a
    ELSE IF a[Len(a)] = 0 THEN NatTrim(SubSeq(a, 1, Len(a) - 1)) ELSE a

RECURSIVE NatAddC(_, _, _)
NatAddC(a, b, c) ==
    IF a = <<>> /\ b = <<>> THEN (IF c = 0 THEN <<>> ELSE <<c>>)
    ELSE LET x == (IF a = <<>> THEN 0 ELSE Head(a))
                  + (IF b = <<>> THEN 0 ELSE Head(b)) + c
         IN  <<x % 10000>> \o NatAddC(IF a = <<>> THEN a ELSE Tail(a),
                                      IF b = <<>> THEN b ELSE Tail(b),
                                      x \div 10000)

NatAdd(a, b) == NatAddC(a, b, 0)

\* -1, 0 or 1 as a < b, a = b or a > b.
RECURSIVE NatCmp(_, _)
NatCmp(a, b) ==
    IF Len(a) # Len(b) THEN (IF Len(a) < Len(b) THEN -1 ELSE 1)
    ELSE IF a = <<>> THEN 0
    ELSE IF a[Len(a)] # b[Len(b)] THEN (IF a[Len(a)] < b[Len(b)] THEN -1 ELSE 1)
    ELSE NatCmp(SubSeq(a, 1, Len(a) - 1), SubSeq(b, 1, Len(b) - 1))

\* a - b for a >= b, before the highest zeros are removed.
RECURSIVE NatSubB(_, _, _)
NatSubB(a, b, borrow) ==
    IF a = <<>> THEN <<>>
    ELSE LET x == Head(a) - (IF b = <<>> THEN 0 ELSE Head(b)) - borrow
         IN  <<x % 10000>> \o NatSubB(Tail(a), IF b = <<>> THEN b ELSE Tail(b),
                                      IF x < 0 THEN 1 ELSE 0)

NatSub(a, b) == NatTrim(NatSubB(a, b, 0))

\* a * digit + carry, before the highest zeros are removed.
RECURSIVE NatMulD(_, _, _)
NatMulD(a, digit, carry) ==
    IF a = <<>> THEN (IF carry = 0 THEN <<>> ELSE <<carry>>)
    ELSE LET x == Head(a) * digit + carry
         IN  <<x % 10000>> \o NatMulD(Tail(a), digit, x \div 10000)

RECURSIVE NatMul(_, _)
NatMul(a, b) ==
    IF a = <<>> \/ b = <<>> THEN <<>>
    ELSE LET rest == NatMul(a, Tail(b))
         IN  NatAdd(NatTrim(NatMulD(a, Head(b), 0)),
                    IF rest = <<>> THEN rest ELSE <<0>> \o rest)

WZero == <<0, <<>>, <<1>>>>
WOne == <<1, <<1>>, <<1>>>>

\* The wide number of the fraction n / d of two integers, d > 0.
WRat(n, d) ==
    IF n = 0 THEN WZero ELSE <<IF n < 0 THEN -1 ELSE 1, NatOf(Abs(n)), NatOf(d)>>

\* The wide number of a fraction <<n, d>> of the integers.
WOfRat(x) == WRat(x[1], x[2])

WNeg(x) == <<-x[1], x[2], x[3]>>
WAbs(x) == <<Abs(x[1]), x[2], x[3]>>
WSign(x) == x[1]

WMul(x, y) ==
    IF x[1] * y[1] = 0 THEN WZero
    ELSE <<x[1] * y[1], NatMul(x[2], y[2]), NatMul(x[3], y[3])>>

WDiv(x, y) ==
    IF x[1] = 0 THEN WZero
    ELSE <<x[1] * y[1], NatMul(x[2], y[3]), NatMul(x[3], y[2])>>

WAdd(x, y) ==
    IF x[1] = 0 THEN y
    ELSE IF y[1] = 0 THEN x
    ELSE LET same == x[3] = y[3]
             a == IF same THEN x[2] ELSE NatMul(x[2], y[3])
             b == IF same THEN y[2] ELSE NatMul(y[2], x[3])
             d == IF same THEN x[3] ELSE NatMul(x[3], y[3])
             c == NatCmp(a, b)
         IN  IF x[1] = y[1] THEN <<x[1], NatAdd(a, b), d>>
             ELSE IF c = 0 THEN WZero
             ELSE IF c > 0 THEN <<x[1], NatSub(a, b), d>>
             ELSE <<y[1], NatSub(b, a), d>>

WSub(x, y) == WAdd(x, WNeg(y))
WLt(x, y) == WSub(x, y)[1] < 0
WEq(x, y) == WSub(x, y)[1] = 0

(***************************************************************************)
(* The rebalance at which weight_func returns the weights held: lines      *)
(* 91-109 over wide numbers, from the cash and the positions of a run.     *)
(* What the run does after that rebalance is not followed.                 *)
(***************************************************************************)
\* The 1e-12 of line 93.
WEpsilon == <<1, <<1>>, <<0, 0, 0, 1>>>>

\* sum(positions[t] * row[t] for t in tickers), over the first n tickers.
RECURSIVE HeldValueWide(_, _, _, _)
HeldValueWide(pos, row, tks, n) ==
    IF n = 0 THEN WZero
    ELSE WAdd(HeldValueWide(pos, row, tks, n - 1),
              WMul(pos[tks[n]], WRat(row[tks[n]], 1)))

\* cash + sum(positions[t] * row[t] for t in tickers)
PortfolioValueWide(c, pos, row, tks) ==
    WAdd(c, HeldValueWide(pos, row, tks, Len(tks)))

\* target_weights.get(t, 0.0)
GetWide(w, t) == IF t \in DOMAIN w THEN w[t] ELSE WZero

\* np.abs(tw).sum() over the first n tickers.
RECURSIVE AbsSumWide(_, _, _)
AbsSumWide(w, tks, n) ==
    IF n = 0 THEN WZero
    ELSE WAdd(AbsSumWide(w, tks, n - 1), WAbs(GetWide(w, tks[n])))

\* tw = tw / (np.abs(tw).sum() + 1e-12)
NormaliseWide(w, tks) ==
    [t \in Range(tks) |->
        WDiv(GetWide(w, t), WAdd(AbsSumWide(w, tks, Len(tks)), WEpsilon))]

\* trades_value = portfolio_value * tw - held value, per ticker.
TradesValueWide(c, pos, row, w, tks) ==
    LET normalised == NormaliseWide(w, tks)
        portfolio_value == PortfolioValueWide(c, pos, row, tks)
    IN  [t \in Range(tks) |->
            WSub(WMul(portfolio_value, normalised[t]),
                 WMul(pos[t], WRat(row[t], 1)))]

\* Mutant of BelowThresholdWide: only a trade of exactly zero is skipped.
BelowThresholdWideZero(trade_val) == trade_val[1] = 0

\* abs(trade_val) < 1e-8
BelowThresholdWide(trade_val) == WLt(WAbs(trade_val), WRat(1, TradeEpsDen))

\* price = current_price[t] * (1 + self.slippage * direction)
SlippedPriceWide(quote, slip, direction) ==
    WMul(WRat(quote, 1), WAdd(WOne, WMul(slip, WRat(direction, 1))))

\* One pass of the trade loop.
ExecTradeWide(st, t, trade_val, quote, slip, comm) ==
    IF BelowThresholdWide(trade_val) THEN st
    ELSE LET direction == WSign(trade_val)
             price == SlippedPriceWide(quote, slip, direction)
             units == WDiv(trade_val, price)
             cost == WMul(WAbs(WMul(units, price)), comm)
         IN  [cash |-> WSub(st.cash, WAdd(WMul(units, price), cost)),
              positions |-> [st.positions EXCEPT ![t] = WAdd(@, units)],
              executed |-> st.executed + 1]

\* The trade loop over the first n tickers.
RECURSIVE ApplyTradesWide(_, _, _, _, _, _, _)
ApplyTradesWide(st, tv, row, tks, n, slip, comm) ==
    IF n = 0 THEN st
    ELSE ExecTradeWide(ApplyTradesWide(st, tv, row, tks, n - 1, slip, comm),
                       tks[n], tv[tks[n]], row[tks[n]], slip, comm)

\* What a rebalance with a non-empty answer w does to [cash, positions].
RebalancedWide(c, pos, row, w, tks, slip, comm) ==
    ApplyTradesWide([cash |-> c, positions |-> pos, executed |-> 0],
                    TradesValueWide(c, pos, row, w, tks), row, tks, Len(tks),
                    slip, comm)

\* The answer of a weight_func that returns the weights held: the held value
\* of each instrument divided by the portfolio value at the row's prices.
HeldWeights(c, pos, row, tks) ==
    [t \in Range(tks) |->
        RDiv(RMul(pos[t], IntRat(row[t])), PortfolioValue(c, pos, row, tks))]

\* The answers of weight_func before it returns the weights held.
HeldRunWeightMaps ==
    { <<>>, [AAA |-> 2], [AAA |-> 1, BBB |-> -1] }

\* The runs of two instances with the same commission, so that both hold the
\* same weights.
InitHeld ==
    InitRun({<<"AAA">>, <<"AAA", "BBB">>}, PanelsOver(PriceRows), SlippageBps,
            { <<0, 0>>, <<5000, 5000>> })

HeldRunRebalance == RebalanceWith(HeldRunWeightMaps)

\* Lines 88-109, when weight_func returns the weights held (of a portfolio
\* whose value is not 0).
RebalanceHeld ==
    /\ pc = "rebalance"
    /\ LET row == prices_pd[rebalance_dates[idx]]
       IN  /\ PortfolioValue(cash[1], positions[1], row, tickers) # Zero
           /\ \E answer \in
                {[t \in Range(tickers) |->
                    WOfRat(HeldWeights(cash[1], positions[1], row, tickers)[t])]} :
              \E after \in
                {[i \in Instances |->
                    RebalancedWide(WOfRat(cash[i]),
                                   [t \in Range(tickers) |-> WOfRat(positions[i][t])],
                                   row, answer, tickers, WOfRat(Slippage),
                                   WOfRat(Commission(i)))]} :
                /\ calls' = Append(calls, <<rebalance_dates[idx], answer>>)
                /\ target_weights' = answer
                /\ tw' = NormaliseWide(answer, tickers)
                /\ cash' = [i \in Instances |-> after[i].cash]
                /\ positions' = [i \in Instances |-> after[i].positions]
                /\ trades' = [i \in Instances |-> trades[i] + after[i].executed]
    /\ pc' = "held"
    /\ UNCHANGED other_vars
    /\ UNCHANGED <<inputs, rebalance_dates, idx, last_date, pending,
                   equity_curve, returned, result>>

NextHeld ==
    \/ Validate
    \/ LoopHead
    \/ MarkToMarket
    \/ HeldRunRebalance
    \/ RebalanceHeld
    \/ FinalValuation

SpecHeld == InitHeld /\ [][NextHeld]_vars

(***************************************************************************)
(* Claims.                                                                 *)
(***************************************************************************)
Last(seq) == seq[Len(seq)]

\* run has returned a result (not the no-result value) on every instance.
Returned == pc = "done" /\ \A i \in Instances : result[i].kind = "dict"

\* The sum over a set of tickers of units held times the price in a row.
RECURSIVE UnitsTimesPrice(_, _, _)
UnitsTimesPrice(S, pos, row) ==
    IF S = {} THEN Zero
    ELSE LET t == CHOOSE x \in S : TRUE
         IN  RAdd(RMul(pos[t], IntRat(row[t])), UnitsTimesPrice(S \ {t}, pos, row))

\* C1: the mark-to-market phase never changes a position's unit count; unit
\* counts change only in the trade-application step of a rebalance (after
\* their initialisation to zero).
C1_UnitsChangeOnlyInTrades ==
    [][pc \notin {"start", "rebalance"} => positions' = positions]_vars

\* The last entry of the equity curve was appended in the step that led to
\* this state (cash and positions are those it was computed from).
JustAppended ==
    \/ pc = "rebalance"
    \/ Returned
    \/ /\ pc = "mtm"
       /\ equity_curve[1] # <<>>
       /\ Last(equity_curve[1])[1] > last_date

\* C2: every value appended to the equity curve for a date equals the cash
\* balance plus the sum over all instruments of the units held times the
\* instrument's price on that date.
C2_EquityIsCashPlusHoldings ==
    JustAppended =>
        \A i \in Instances :
            Last(equity_curve[i])[2] =
                RAdd(cash[i],
                     UnitsTimesPrice(Range(tickers), positions[i],
                                     prices_pd[Last(equity_curve[i])[1]]))

\* C2's case: a day has just been valued while instruments are held.
C2_Witness ==
    /\ pc = "rebalance"
    /\ \E t \in Range(tickers) : positions[1][t] # Zero
    /\ cash[1] # Zero

\* weight_func has returned the empty mapping at every call so far.
OnlyEmptyAnswers == \A j \in DOMAIN calls : calls[j][2] = <<>>

\* C3: if weight_func returns an empty mapping at every rebalance date, every
\* entry of the equity curve equals the initial capital and all positions are
\* zero at the end of the run.
C3_NoTradingKeepsCapital ==
    (OnlyEmptyAnswers /\ pc # "start") =>
        \A i \in Instances :
            /\ \A j \in DOMAIN equity_curve[i] :
                    equity_curve[i][j][2] = IntRat(initial_capital)
            /\ Returned =>
                /\ \A dt \in DOMAIN result[i].equity_curve :
                        result[i].equity_curve[dt] = IntRat(initial_capital)
                /\ \A t \in Range(tickers) : positions[i][t] = Zero

\* C3's case: a finished run over changing prices in which weight_func was
\* called, and answered with the empty mapping each time.
C3_Witness ==
    /\ Returned
    /\ calls # <<>>
    /\ OnlyEmptyAnswers
    /\ Len(equity_curve[1]) >= 2
    /\ \E x, y \in Dates : prices_pd[x] # prices_pd[y]

(***************************************************************************)
(* The normalisation of lines 92-93 as a function of weight_func's answer: *)
(* a specification that draws the answer from weights of every size        *)
(* relative to the epsilon, and normalises it.                             *)
(***************************************************************************)
\* Weights in units of 1e-12: 1e-6 is 1000000 units.
WeightUnits == {-1000000, 0, 1, 499999, 500000, 999999, 1000000000}

NormaliseInputs ==
    [{"AAA", "BBB"} -> WeightUnits] \cup [{"AAA"} -> WeightUnits]

InitNormalise ==
    /\ tickers \in {<<"AAA">>, <<"AAA", "BBB">>}
    /\ target_weights \in NormaliseInputs
    /\ tw = <<>>
    /\ pc = "normalise"
    /\ prices_pd = [x \in {1} |-> [AAA |-> 1, BBB |-> 2]]
    /\ frequency = [period |-> 1, anchor |-> 0]
    /\ initial_capital = 1
    /\ commission_bps = [i \in Instances |-> 0]
    /\ slippage_bps = 0
    /\ rebalance_dates = <<1>>
    /\ idx = 1
    /\ last_date = 1
    /\ pending = <<>>
    /\ cash = [i \in Instances |-> IntRat(1)]
    /\ positions = [i \in Instances |-> [t \in Range(tickers) |-> Zero]]
    /\ equity_curve = [i \in Instances |-> <<>>]
    /\ calls = <<>>
    /\ trades = [i \in Instances |-> 0]
    /\ returned = <<>>
    /\ OthersIdle
    /\ result = [i \in Instances |-> Running]

\* Lines 92-93.
NormaliseStep ==
    /\ pc = "normalise"
    /\ tw' = Normalise(target_weights, tickers)
    /\ pc' = "normalised"
    /\ UNCHANGED <<trades, returned>>
    /\ UNCHANGED other_vars
    /\ UNCHANGED <<inputs, rebalance_dates, idx, last_date, pending, cash,
                   positions, equity_curve, calls, target_weights, result>>

SpecNormalise == InitNormalise /\ [][NormaliseStep]_vars

\* The sum over a set of tickers of the absolute normalised weights.
RECURSIVE SumAbsWeights(_, _)
SumAbsWeights(S, normalised) ==
    IF S = {} THEN Zero
    ELSE LET t == CHOOSE x \in S : TRUE
         IN  RAdd(RAbs(normalised[t]), SumAbsWeights(S \ {t}, normalised))

\* The sum over a set of tickers of the absolute weights of the answer, in
\* units of 1e-12.
RECURSIVE SumAbsUnits(_, _)
SumAbsUnits(S, w) ==
    IF S = {} THEN 0
    ELSE LET t == CHOOSE x \in S : TRUE
         IN  (IF t \in DOMAIN w THEN Abs(w[t]) ELSE 0) + SumAbsUnits(S \ {t}, w)

\* |x - 1| <= 1e-6, for a rational x = n/d: m/d <= 1/1000000 with m = |n - d|.
WithinTolOfOne(x) == Abs(x[1] - x[2]) <= x[2] \div 1000000

\* The normalisation divided by a positive number.
DividedByPositive == \A t \in Range(tickers) : tw[t][2] > 0

\* C5 as stated: for any non-zero target-weight mapping the normalised
\* weights have absolute values summing to within 1e-6 of 1.0; if all input
\* weights are zero they sum to 0; the normalisation never divides by zero.
C5_NormalisedSumIsOne ==
    pc = "normalised" =>
        LET units == SumAbsUnits(Range(tickers), target_weights)
            total == SumAbsWeights(Range(tickers), tw)
        IN  /\ DividedByPositive
            /\ units = 0 => total = Zero
            /\ units > 0 => WithinTolOfOne(total)

\* C5 as amended: the normalised weights have absolute values summing to
\* within 1e-6 of 1.0 exactly when the absolute input weights sum to at least
\* 1e-6 - 1e-12 (999999 units); for a smaller non-zero sum the normalised sum
\* lies strictly between 0 and 1 - 1e-6; if all input weights are zero it is
\* 0; the normalisation never divides by zero.
C5_NormalisedSumIsOneAboveEps ==
    pc = "normalised" =>
        LET units == SumAbsUnits(Range(tickers), target_weights)
            total == SumAbsWeights(Range(tickers), tw)
        IN  /\ DividedByPositive
            /\ units = 0 => total = Zero
            /\ units >= 999999 => WithinTolOfOne(total)
            /\ (units > 0 /\ units < 999999) =>
                    /\ ~WithinTolOfOne(total)
                    /\ total[1] > 0
                    /\ total[1] < total[2]

\* C5's case: a mapping of two weights of opposite sign, large against the
\* epsilon, has been normalised.
C5_Witness ==
    /\ pc = "normalised"
    /\ Len(tickers) = 2
    /\ target_weights = [AAA |-> -1000000, BBB |-> 1000000000]
    /\ DividedByPositive

\* The dates of the entries of an equity-curve list are strictly ascending up
\* to position n.
Ascending(ec, n) == \A j, k \in 1..n : j < k => ec[j][1] < ec[k][1]

\* C4 as stated: the returned equity curve has exactly one entry per trading
\* day of the panel, and no appended entry is removed or replaced.
C4_OneEntryPerTradingDay ==
    Returned =>
        \A i \in Instances :
            /\ DOMAIN result[i].equity_curve = Dates
            /\ Ascending(equity_curve[i], Len(equity_curve[i]))

\* The dates the loop values: those after the panel's first date up to the
\* last rebalance date; and the panel's last date, valued at the end.
ValuedDates ==
    {x \in Dates : Min(Dates) < x /\ x <= Max(Range(rebalance_dates))}
        \cup {Max(Dates)}

\* C4 as amended: the returned curve has exactly one entry for each panel
\* date after the first date up to the last rebalance date, and one for the
\* panel's last date, which is the final valuation; the list of appended
\* entries is ascending in date, except that the final valuation repeats the
\* last date (and replaces its entry) when that date was valued in the loop.
C4_OneEntryPerValuedDay ==
    \A i \in Instances :
        /\ pc \in {"loop", "mtm", "rebalance", "final"} =>
                Ascending(equity_curve[i], Len(equity_curve[i]))
        /\ Returned =>
            /\ DOMAIN result[i].equity_curve = ValuedDates
            /\ Ascending(equity_curve[i], Len(equity_curve[i]) - 1)
            /\ Last(equity_curve[i])[1] = Max(Dates)
            /\ result[i].equity_curve[Max(Dates)] = Last(equity_curve[i])[2]

\* C4's case: a returned curve of several entries that has none for the
\* panel's first date and none for a date between the last rebalance date
\* and the panel's last date.
C4_Witness ==
    /\ Returned
    /\ Len(equity_curve[1]) >= 2
    /\ Min(Dates) \notin DOMAIN result[1].equity_curve
    /\ \E x \in Dates :
        /\ Max(Range(rebalance_dates)) < x
        /\ x < Max(Dates)
        /\ x \notin DOMAIN result[1].equity_curve

\* The final equity value of an instance's run: the last entry of its curve.
FinalEquity(i) == result[i].equity_curve[Max(DOMAIN result[i].equity_curve)]

\* The number of calls of weight_func that returned a non-empty mapping.
NonEmptyAnswers == Cardinality({j \in DOMAIN calls : calls[j][2] # <<>>})

\* C6 as stated: of two runs on identical inputs and weight sequence that
\* differ only in commission_bps, the run with the higher commission_bps ends
\* with a final equity less than or equal to that of the other, and strictly
\* less whenever at least one trade is executed.
C6_CommissionLowersFinalEquity ==
    Returned =>
        /\ commission_bps[1] < commission_bps[2]
        /\ RLe(FinalEquity(2), FinalEquity(1))
        /\ (trades[1] > 0 /\ trades[2] > 0) => RLt(FinalEquity(2), FinalEquity(1))

\* C6 as amended: the same, for runs in which weight_func returns a non-empty
\* mapping at no more than one rebalance date.
C6_CommissionLowersSingleRebalanceEquity ==
    (Returned /\ NonEmptyAnswers <= 1) =>
        /\ commission_bps[1] < commission_bps[2]
        /\ RLe(FinalEquity(2), FinalEquity(1))
        /\ (trades[1] > 0 /\ trades[2] > 0) => RLt(FinalEquity(2), FinalEquity(1))

\* C6's case: both runs have returned after trading at one rebalance date in
\* both instruments, and the run that paid the higher commission ends lower.
C6_Witness ==
    /\ Returned
    /\ NonEmptyAnswers = 1
    /\ \A i \in Instances : trades[i] = 2
    /\ RLt(FinalEquity(2), FinalEquity(1))

\* run has returned the no-result value on every instance.
ReturnedNone == pc = "done" /\ \A i \in Instances : result[i] = NoResult

\* C9: when the panel has no column other than the date column, run returns
\* the no-result value without ever calling weight_func: it goes from its
\* start straight to its return, the value returned is None, and no call of
\* weight_func is made.
C9_NoColumnsNoResult ==
    tickers = <<>> =>
        /\ pc \in {"start", "done"}
        /\ pc = "done" => ReturnedNone
        /\ calls = <<>>

\* C9's case: run has returned on a panel of dates only.
C9_Witness ==
    /\ tickers = <<>>
    /\ pc = "done"
    /\ Cardinality(Dates) >= 2

\* The scheduled anchor dates between the panel's first and last date that
\* are trading dates of the panel.
AnchorTradingDates ==
    {x \in Dates : x % frequency.period = frequency.anchor}

\* C10: when no scheduled anchor date is a trading date of the panel, run
\* returns the no-result value without calling weight_func; when some is and
\* the panel has an instrument column, what run returns is a result with an
\* equity curve and a return series.
C10_EmptyScheduleNoResult ==
    /\ AnchorTradingDates = {} =>
            /\ pc \in {"start", "done"}
            /\ pc = "done" => ReturnedNone
            /\ calls = <<>>
    /\ (AnchorTradingDates # {} /\ tickers # <<>> /\ pc = "done") =>
            \A i \in Instances :
                /\ result[i].kind = "dict"
                /\ DOMAIN result[i] = {"kind", "equity_curve", "returns"}
                /\ DOMAIN result[i].equity_curve # {}
                /\ DOMAIN result[i].returns = DOMAIN result[i].equity_curve

\* C10's case: run has returned on a panel with instrument columns none of
\* whose trading dates is a scheduled anchor date.
C10_Witness ==
    /\ tickers # <<>>
    /\ AnchorTradingDates = {}
    /\ pc = "done"

\* C10's other case: run has returned a result on a panel with instrument
\* columns and a scheduled trading date.
C10_ResultWitness ==
    /\ tickers # <<>>
    /\ AnchorTradingDates # {}
    /\ Returned

\* The three-day panel of the scenario: the two instruments rise by 5% and by
\* 2.5% from the first day to the third, every day is a rebalance date, and
\* there is no slippage and no commission.
ThreeDayScenario ==
    /\ tickers = AllTickers
    /\ Dates = {1, 2, 3}
    /\ frequency.period = 1
    /\ prices_pd[1] = [AAA |-> 20, BBB |-> 40]
    /\ prices_pd[3] = [AAA |-> 21, BBB |-> 41]
    /\ slippage_bps = 0
    /\ \A i \in Instances : commission_bps[i] = 0

\* The return, by hand, of the equal-weight portfolio held in the scenario:
\* the portfolio is bought at the second day (the first day has no history to
\* rebalance on), each instrument with the weight w / (2w + 1e-12) of the
\* answer, and earns that weight times the instrument's rise to the third day.
BlendedReturn ==
    LET w == calls[1][2]
        held == [t \in {"AAA", "BBB"} |-> Rat(w[t], w.AAA + w.BBB + EpsUnits)]
        rise == [t \in {"AAA", "BBB"} |->
                    RSub(Rat(prices_pd[3][t], prices_pd[2][t]), One)]
    IN  RAdd(RMul(held.AAA, rise.AAA), RMul(held.BBB, rise.BBB))

\* |x - y| <= 1e-6 * |y|, for y # 0.
WithinRelTol(x, y) ==
    LET q == RAbs(RDiv(RSub(x, y), y))
    IN  q[1] <= q[2] \div 1000000

\* C8: in the three-day scenario with an equal-weight answer at each
\* rebalance date, the final equity run returns equals, within 1e-6 relative
\* tolerance, the initial capital times 1 + the blended return of the held
\* equal-weight portfolio.
C8_ScenarioFinalEquity ==
    (Returned /\ ThreeDayScenario) =>
        \A i \in Instances :
            WithinRelTol(FinalEquity(i),
                         RMul(IntRat(initial_capital), RAdd(One, BlendedReturn)))

\* The step in which weight_func returns the weights held.
HeldStep == pc = "rebalance" /\ pc' = "held"

\* The held value of an instrument before the step, at the rebalance date's
\* prices.
HeldBefore(i, t) ==
    WOfRat(RMul(positions[i][t], IntRat(prices_pd[rebalance_dates[idx]][t])))

\* The portfolio value before the step.
ValueBefore(i) ==
    WOfRat(RAdd(cash[i],
                UnitsTimesPrice(Range(tickers), positions[i],
                                prices_pd[rebalance_dates[idx]])))

\* The sum over a set of tickers of the absolute held weights before the step.
RECURSIVE GrossWeight(_, _)
GrossWeight(i, S) ==
    IF S = {} THEN WZero
    ELSE LET t == CHOOSE x \in S : TRUE
         IN  WAdd(WAbs(WDiv(HeldBefore(i, t), ValueBefore(i))),
                  GrossWeight(i, S \ {t}))

\* The answer of the step is the weights held before it.
TargetIsHeld ==
    \A t \in Range(tickers) :
        WEq(WMul(target_weights'[t], ValueBefore(1)), HeldBefore(1, t))

UnitsUnchanged(i, t) == WEq(positions'[i][t], WOfRat(positions[i][t]))
CashUnchanged(i) == WEq(cash'[i], WOfRat(cash[i]))

\* C7 as stated: if the target weights returned at a rebalance date exactly
\* equal the weights held, the trade-application step changes no position's
\* unit count and leaves cash unchanged.
C7_HeldWeightsChangeNothing ==
    [][(HeldStep /\ TargetIsHeld) =>
            \A i \in Instances :
                /\ CashUnchanged(i)
                /\ \A t \in Range(tickers) : UnitsUnchanged(i, t)]_vars

\* The trade the step computes for an instrument, by hand: with S the sum of
\* the absolute held weights, the held value times (1 - S - 1e-12) over
\* (S + 1e-12).  It is below the threshold of line 102 when its absolute
\* value is less than 1e-8.
ResidualTradeSmall(i, t) ==
    \E gross \in {WAdd(GrossWeight(i, Range(tickers)), WEpsilon)} :
        WLt(WAbs(WDiv(WMul(HeldBefore(i, t), WSub(WOne, gross)), gross)),
            WRat(1, 100000000))

\* C7 as amended: if the target weights returned at a rebalance date exactly
\* equal the weights held, with S the sum of their absolute values, the
\* trade-application step leaves an instrument's unit count unchanged exactly
\* when |held value * (1 - S - 1e-12) / (S + 1e-12)| < 1e-8, and leaves cash
\* unchanged when that holds for every instrument.
C7_HeldWeightsChangeNothingWhenFullyInvested ==
    [][(HeldStep /\ TargetIsHeld) =>
            \A i \in Instances :
                /\ \A t \in Range(tickers) :
                        UnitsUnchanged(i, t) <=> ResidualTradeSmall(i, t)
                /\ (\A t \in Range(tickers) : ResidualTradeSmall(i, t))
                        => CashUnchanged(i)]_vars

\* C7's case: weight_func has returned the weights held by a portfolio with
\* a holding, and after the trade-application step the weights held are still
\* the ones returned: nothing was traded.
C7_Witness ==
    /\ pc = "held"
    /\ \A i \in Instances :
        /\ \E t \in Range(tickers) : positions[i][t][1] # 0
        /\ \E value \in {PortfolioValueWide(cash[i], positions[i],
                                           prices_pd[rebalance_dates[idx]], tickers)} :
            \A t \in Range(tickers) :
                WEq(WMul(target_weights[t], value),
                    WMul(positions[i][t],
                         WRat(prices_pd[rebalance_dates[idx]][t], 1)))

(***************************************************************************)
(* C11: an empty answer of weight_func.                                    *)
(***************************************************************************)
\* The step that processes a rebalance date whose answer is the empty mapping.
EmptyAnswerStep ==
    /\ pc = "rebalance"
    /\ calls' # calls
    /\ Last(calls')[2] = <<>>

\* C11: at a rebalance date where weight_func returns an empty mapping no
\* trade is executed: cash and every unit count are after the date's
\* processing what they were after its mark-to-market phase, and the run goes
\* on with the next rebalance date.
C11_EmptyAnswerTradesNothing ==
    [][EmptyAnswerStep =>
        /\ cash' = cash
        /\ positions' = positions
        /\ trades' = trades
        /\ pc' = "loop"
        /\ idx' = idx + 1]_vars

\* An empty answer has been processed while units were held.
C11_Witness ==
    /\ pc = "loop"
    /\ calls # <<>>
    /\ Last(calls)[2] = <<>>
    /\ \E t \in Range(tickers) : positions[1][t] # Zero

(***************************************************************************)
(* C12: run called again.  SpecAgain is the call of run followed by        *)
(* further calls on the same instances with the same panel and frequency   *)
(* and a deterministic weight_func: at a rebalance date it answers what it *)
(* answered for that date in the first call.  What the locals of the       *)
(* earlier call held is left in the variables when the next call starts.   *)
(***************************************************************************)
\* The number of calls of run on an instance.
MaxCalls == 2

\* The configurations in which both instances are built alike.
SameCommissionPairs == { <<5000, 5000>> }

InitAgain ==
    InitRun(TickerLists, PanelsOver(PriceRows), SlippageBps, SameCommissionPairs)

\* Line 118, and lines 31-36 of the next call: run has returned, and is
\* called again with the same arguments.
CallAgain ==
    /\ pc = "done"
    /\ Len(returned) + 1 < MaxCalls
    /\ returned' = Append(returned, result)
    /\ result' = [i \in Instances |-> Running]
    /\ pc' = "start"
    /\ UNCHANGED other_vars
    /\ UNCHANGED <<inputs, rebalance_dates, idx, last_date, pending, cash,
                   positions, equity_curve, calls, target_weights, tw, trades>>

\* What weight_func answered for the history up to date d in the first call.
PastAnswers(d) == {calls[j][2] : j \in {k \in DOMAIN calls : calls[k][1] = d}}

\* What weight_func may answer in the first call.
AgainWeightMaps == { <<>>, [AAA |-> 1, BBB |-> 1], [AAA |-> -1, BBB |-> 0] }

\* Lines 88-109 with a deterministic weight_func.
DeterministicRebalance ==
    RebalanceWith(IF returned = <<>> THEN AgainWeightMaps
                  ELSE PastAnswers(rebalance_dates[idx]))

NextAgain ==
    \/ Validate
    \/ LoopHead
    \/ MarkToMarket
    \/ DeterministicRebalance
    \/ FinalValuation
    \/ CallAgain

SpecAgain == InitAgain /\ [][NextAgain]_vars

\* Every call that has returned, returned what the call now finished returns,
\* and the two instances (built alike) return the same.
SameResults ==
    pc = "done" =>
        /\ \A j \in DOMAIN returned : returned[j] = result
        /\ result[1] = result[2]

\* C12: run is pure given its inputs: calls on the same instance, or on two
\* instances of the same configuration, with the same panel, frequency and
\* deterministic weight_func return identical equity curves and return
\* series, and a call leaves initial_capital, commission and slippage of the
\* instance as they were.
C12_RunIsPure ==
    /\ []SameResults
    /\ [][UNCHANGED <<initial_capital, commission_bps, slippage_bps>>]_vars

\* A second call has returned a curve, after trades that moved the cash of the
\* first call away from the initial capital.
C12_Witness ==
    /\ pc = "done"
    /\ returned # <<>>
    /\ result[1].kind = "dict"
    /\ trades[1] > 2
    /\ cash[1] # IntRat(initial_capital)
    /\ Cardinality(DOMAIN result[1].equity_curve) > 2

(***************************************************************************)
(* The vectorized backtester of quant_system/backtesting/vectorized.py.    *)
(* A frame is its list of columns and its rows in order; a row is its date *)
(* and its values by ticker.  The dates of a frame are distinct.  A pandas *)
(* Series is the sequence of its <<date, value>> entries.                   *)
(* SpecBacktest is one call of Backtester.run_backtest.                    *)
(***************************************************************************)
\* The most rows, and the latest date, of a frame.
MaxRows == 3

\* The rows of weights of a signals frame.
SignalRows == { [AAA |-> Rat(1, 2), BBB |-> Rat(1, 2)],
                [AAA |-> One, BBB |-> RNeg(One)] }

\* The sequences of distinct dates, in any order.
DateLists ==
    UNION {{ds \in [1..n -> 1..MaxRows] :
                \A j, k \in 1..n : j # k => ds[j] # ds[k]} : n \in 0..MaxRows}

\* The ascending ones among them.
AscendingDateLists ==
    {ds \in DateLists : \A j, k \in DOMAIN ds : j < k => ds[j] < ds[k]}

\* The frames of the columns tks whose date column is one of dateLists and
\* whose rows of values are taken from rows.
Frames(tks, dateLists, rows) ==
    UNION {{[columns |-> <<"date">> \o tks,
             rows |-> [k \in DOMAIN ds |->
                          [date |-> ds[k],
                           values |-> [t \in Range(tks) |-> vs[k][t]]]]] :
                vs \in [DOMAIN ds -> rows]} : ds \in dateLists}

\* The state of the variables of EventBacktester.run when it is not called
\* (initial_capital is the attribute of the Backtester as well).
EventIdle ==
    /\ tickers = <<>>
    /\ prices_pd = <<>>
    /\ frequency = [period |-> 1, anchor |-> 0]
    /\ commission_bps = [i \in Instances |-> 0]
    /\ slippage_bps = 0
    /\ pc = "idle"
    /\ rebalance_dates = <<>>
    /\ idx = 0
    /\ last_date = 0
    /\ pending = <<>>
    /\ cash = [i \in Instances |-> Zero]
    /\ positions = [i \in Instances |-> <<>>]
    /\ equity_curve = [i \in Instances |-> <<>>]
    /\ calls = <<>>
    /\ target_weights = <<>>
    /\ tw = <<>>
    /\ trades = [i \in Instances |-> 0]
    /\ returned = <<>>
    /\ result = [i \in Instances |-> Running]

\* Backtester() and the arguments of run_backtest.
InitBacktest ==
    /\ initial_capital \in InitialCapitals
    /\ \E tks \in TickerLists :
        /\ prices \in Frames(tks, DateLists, PriceRows)
        /\ signals \in Frames(tks, AscendingDateLists, SignalRows)
    /\ run_backtest_result = Running
    /\ weights = <<>>
    /\ scenario_name = ""
    /\ stress_test_result = Running
    /\ EventIdle

\* [c for c in prices.columns if c != "date"]
ColumnTickers(frame) == SelectSeq(frame.columns, LAMBDA c : c # "date")

\* frame.to_pandas().set_index("date").index
Index(frame) == [k \in DOMAIN frame.rows |-> frame.rows[k].date]

\* Mutant of Intersection: the first common date is left out.
IntersectionAfterFirst(left, right) ==
    LET both == SelectSeq(left, LAMBDA x : x \in Range(right))
    IN  IF both = <<>> THEN both ELSE Tail(both)

\* left.intersection(right) of two indexes of distinct dates: the dates of
\* left that are in right, in the order of left.
Intersection(left, right) == SelectSeq(left, LAMBDA x : x \in Range(right))

\* frame_pd.loc[common]: the values of the rows of the dates of common, in the
\* order of common.
Loc(frame, common) ==
    [k \in DOMAIN common |->
        frame.rows[CHOOSE j \in DOMAIN frame.rows :
                        frame.rows[j].date = common[k]].values]

\* Mutant of ShiftFill: the signals are not shifted, so that a date's return
\* is weighted by the signal of the same date.
ShiftNone(rows, tks) == rows

\* .shift().fillna(0): every row takes the values of the row before it, the
\* first row zeros.
ShiftFill(rows, tks) ==
    [k \in DOMAIN rows |->
        IF k = 1 THEN [t \in Range(tks) |-> Zero] ELSE rows[k - 1]]

\* .pct_change().fillna(0)
PctChangeFill(rows, tks) ==
    [k \in DOMAIN rows |->
        IF k = 1 THEN [t \in Range(tks) |-> Zero]
        ELSE [t \in Range(tks) |-> PctChange(rows[k - 1][t], rows[k][t])]]

\* (returns * signals_pd).sum(axis=1) for one row, over the first n tickers.
RECURSIVE RowProductSum(_, _, _, _)
RowProductSum(returns_row, signals_row, tks, n) ==
    IF n = 0 THEN Zero
    ELSE RAdd(RowProductSum(returns_row, signals_row, tks, n - 1),
              RMul(returns_row[tks[n]], signals_row[tks[n]]))

\* (1 + portfolio_returns).cumprod() up to row k.
RECURSIVE CumProd(_, _)
CumProd(portfolio_returns, k) ==
    IF k = 0 THEN One
    ELSE RMul(CumProd(portfolio_returns, k - 1),
              RAdd(One, portfolio_returns[k]))

\* Lines 34-53: what run_backtest returns for a prices frame and a signals
\* frame.
RunBacktestOn(price_frame, signal_frame) ==
    LET tks == ColumnTickers(price_frame)
    IN  IF tks = <<>> THEN NoResult
        ELSE LET common == Intersection(Index(price_frame), Index(signal_frame))
                 aligned == Loc(price_frame, common)
                 signals_pd == ShiftFill(Loc(signal_frame, common), tks)
                 returns == PctChangeFill(aligned, tks)
                 portfolio_returns ==
                    [k \in DOMAIN common |->
                        RowProductSum(returns[k], signals_pd[k], tks, Len(tks))]
             IN  [kind |-> "dict",
                  equity_curve |->
                    [k \in DOMAIN common |->
                        <<common[k], RMul(CumProd(portfolio_returns, k),
                                          IntRat(initial_capital))>>],
                  returns |->
                    [k \in DOMAIN common |-> <<common[k], portfolio_returns[k]>>]]

\* What the call returns for its arguments.
RunBacktestValue == RunBacktestOn(prices, signals)

\* Backtester.run_backtest.
RunBacktest ==
    /\ pc = "idle"
    /\ run_backtest_result = Running
    /\ run_backtest_result' = RunBacktestValue
    /\ UNCHANGED <<prices, signals, weights, scenario_name, stress_test_result>>
    /\ UNCHANGED event_vars

SpecBacktest == InitBacktest /\ [][RunBacktest]_vars

(***************************************************************************)
(* C13: run_backtest returns a curve over the common dates.                *)
(***************************************************************************)
\* The dates of a frame.
FrameDates(frame) == Range(Index(frame))

\* C13: for a price panel with a date column and at least one ticker column
\* and a signals panel, run_backtest returns a result (not None) whose
\* equity_curve has one value for each date common to prices and signals.
C13_BacktestCurveOverCommonDates ==
    (run_backtest_result # Running /\ ColumnTickers(prices) # <<>>) =>
        /\ run_backtest_result.kind = "dict"
        /\ LET ec == run_backtest_result.equity_curve
           IN  /\ {ec[k][1] : k \in DOMAIN ec}
                    = FrameDates(prices) \cap FrameDates(signals)
               /\ \A j, k \in DOMAIN ec : j # k => ec[j][1] # ec[k][1]

\* run_backtest has returned for a price panel of three unsorted dates and
\* signals on the same dates.
C13_Witness ==
    /\ run_backtest_result # Running
    /\ ColumnTickers(prices) = AllTickers
    /\ Index(prices) = <<2, 1, 3>>
    /\ FrameDates(signals) = FrameDates(prices)
    /\ Len(run_backtest_result.equity_curve) = 3

(***************************************************************************)
(* The stress test of quant_system/risk/scenario.py.  SpecStress is one    *)
(* call of ScenarioAnalyzer.stress_test_portfolio; the returned dict is a  *)
(* record of kind "dict" with the items of the dict as further fields.     *)
(***************************************************************************)
\* ScenarioAnalyzer.SCENARIOS
SCENARIOS ==
    [crash |-> Rat(-3, 10), rally |-> Rat(1, 5),
     mild_bear |-> Rat(-1, 10), mild_bull |-> Rat(1, 10)]

\* The scenario names asked for: the known ones and two unknown ones.
ScenarioNames == DOMAIN SCENARIOS \cup {"meltdown", ""}

\* The weights mappings: any keys among three, any of five values.
WeightValues == {RNeg(One), Rat(-1, 2), Zero, Rat(1, 2), One}
WeightMappings == UNION {[K -> WeightValues] : K \in SUBSET {"A", "B", "C"}}

\* The dict without items.
EmptyDict == [kind |-> "dict"]

\* ScenarioAnalyzer() and the arguments of stress_test_portfolio.
InitStress ==
    /\ weights \in WeightMappings
    /\ scenario_name \in ScenarioNames
    /\ stress_test_result = Running
    /\ prices = <<>>
    /\ signals = <<>>
    /\ run_backtest_result = Running
    /\ initial_capital \in InitialCapitals
    /\ EventIdle

\* Mutant of ExpectedReturn: the shock is applied to the absolute weights.
RECURSIVE ExpectedReturnGross(_, _, _)
ExpectedReturnGross(ws, keys, shock) ==
    IF keys = {} THEN Zero
    ELSE LET k == CHOOSE x \in keys : TRUE
         IN  RAdd(ExpectedReturnGross(ws, keys \ {k}, shock),
                  RMul(RAbs(ws[k]), shock))

\* sum(w * shock for w in weights.values()), over the given keys.
RECURSIVE ExpectedReturn(_, _, _)
ExpectedReturn(ws, keys, shock) ==
    IF keys = {} THEN Zero
    ELSE LET k == CHOOSE x \in keys : TRUE
         IN  RAdd(ExpectedReturn(ws, keys \ {k}, shock), RMul(ws[k], shock))

\* Lines 22-33: what stress_test_portfolio returns.
StressTestValue ==
    IF scenario_name \notin DOMAIN SCENARIOS THEN EmptyDict
    ELSE [kind |-> "dict",
          scenario |-> scenario_name,
          expected_return |->
            ExpectedReturn(weights, DOMAIN weights, SCENARIOS[scenario_name])]

\* ScenarioAnalyzer.stress_test_portfolio.
StressTestPortfolio ==
    /\ pc = "idle"
    /\ stress_test_result = Running
    /\ stress_test_result' = StressTestValue
    /\ UNCHANGED <<prices, signals, run_backtest_result, weights, scenario_name>>
    /\ UNCHANGED event_vars

SpecStress == InitStress /\ [][StressTestPortfolio]_vars

(***************************************************************************)
(* C14: the result of the stress test.                                     *)
(***************************************************************************)
\* The sum of the values of a mapping.
RECURSIVE SumValues(_, _)
SumValues(ws, keys) ==
    IF keys = {} THEN Zero
    ELSE LET k == CHOOSE x \in keys : TRUE
         IN  RAdd(ws[k], SumValues(ws, keys \ {k}))

\* C14: with a known scenario name the result names the scenario and its
\* expected_return is the scenario's shock times the sum of the weights, so
\* negative for the crash scenario whenever the weights sum to a positive
\* number; with an unknown name the result is an empty mapping.
C14_StressTestResult ==
    stress_test_result # Running =>
        IF scenario_name \in DOMAIN SCENARIOS
        THEN LET total == SumValues(weights, DOMAIN weights)
             IN  /\ stress_test_result.scenario = scenario_name
                 /\ stress_test_result.expected_return
                        = RMul(SCENARIOS[scenario_name], total)
                 /\ (scenario_name = "crash" /\ RLt(Zero, total)) =>
                        RLt(stress_test_result.expected_return, Zero)
        ELSE stress_test_result = EmptyDict

\* The crash scenario has been applied to the weights of one half each.
C14_Witness ==
    /\ scenario_name = "crash"
    /\ weights = [k \in {"A", "B"} |-> Rat(1, 2)]
    /\ stress_test_result # Running
    /\ stress_test_result.expected_return = Rat(-3, 10)

\* An unknown scenario has been asked for.
C14_UnknownWitness ==
    /\ scenario_name = "meltdown"
    /\ weights # <<>>
    /\ stress_test_result = EmptyDict

(***************************************************************************)
(* C15: the calls of weight_func.                                          *)
(***************************************************************************)
\* The rebalance dates of the calls of weight_func so far, in call order (the
\* call for date d is made with the rows dated up to and including d).
CallDates == [k \in DOMAIN calls |-> calls[k][1]]

\* C15: run calls weight_func exactly once for each rebalance date, in
\* ascending date order, with the history up to and including that date,
\* also for a rebalance date that is the panel's first trading date.
C15_OneCallPerRebalanceDate ==
    (pc = "done" /\ result[1].kind = "dict") => CallDates = rebalance_dates

\* What the code does: one call for each rebalance date that has at least two
\* rows of history, in ascending order.
C15_OneCallPerRebalanceDateWithHistory ==
    (pc = "done" /\ result[1].kind = "dict") =>
        CallDates = SelectSeq(rebalance_dates, LAMBDA d : d > Min(Dates))

(***************************************************************************)
(* C16 to C20: the trade-application step.                                 *)
(***************************************************************************)
\* The step that processes a rebalance date whose answer is not empty.
TradingStep ==
    /\ pc = "rebalance"
    /\ calls' # calls
    /\ Last(calls')[2] # <<>>

\* The row of quoted prices of the rebalance date being processed.
QuotedRow == prices_pd[rebalance_dates[idx]]

\* The portfolio value of an instance at the quoted prices, before the trades.
ValueBeforeTrades(i) == PortfolioValue(cash[i], positions[i], QuotedRow, tickers)

\* The normalised weight of ticker t in an answer (0 for an absent ticker).
NormalisedTarget(answer, t) ==
    Rat(Get(answer, t), AbsSum(answer, tickers, Len(tickers)) + EpsUnits)

\* C16: with zero slippage, after the trades of a rebalance date with a
\* non-empty answer the value held of each instrument at that date's prices
\* is its normalised target weight times the portfolio value at those prices
\* before the trades, up to the skip threshold 1e-8.
C16_HeldValueIsTarget ==
    [][(TradingStep /\ slippage_bps = 0) =>
        \A i \in Instances : \A t \in Range(tickers) :
            BelowThreshold(
                RSub(RMul(positions'[i][t], IntRat(QuotedRow[t])),
                     RMul(NormalisedTarget(Last(calls')[2], t),
                          ValueBeforeTrades(i))))]_vars

\* With zero slippage a portfolio that held units has been traded to a
\* non-empty answer.
C16_Witness ==
    /\ pc = "loop"
    /\ slippage_bps = 0
    /\ Len(calls) >= 2
    /\ calls[Len(calls) - 1][2] # <<>>
    /\ Last(calls)[2] = [AAA |-> -1, BBB |-> 0]
    /\ positions[1]["AAA"][1] < 0
    /\ trades[1] >= 2

\* The trade amount of ticker t for an instance, from the state before the
\* trades and the answer just given.
TradeAmount(i, t) ==
    TradesValue(cash[i], positions[i], QuotedRow, Last(calls')[2], tickers)[t]

\* The units of ticker t traded by an instance in the step.
TradedUnits(i, t) == RSub(positions'[i][t], positions[i][t])

\* The quoted price of ticker t moved by the slippage fraction, up or down.
QuoteUp(t) == RMul(IntRat(QuotedRow[t]), RAdd(One, Slippage))
QuoteDown(t) == RMul(IntRat(QuotedRow[t]), RSub(One, Slippage))

\* C17: every buy (positive trade amount) executes at the quoted price times
\* (1 + slippage_bps/10000) and every sell (negative trade amount) at the
\* quoted price times (1 - slippage_bps/10000): the traded units times that
\* price are the trade amount, and the price is never better for the trader
\* than the quoted price.
C17_SlippageAgainstTrader ==
    [][TradingStep =>
        \A i \in Instances : \A t \in Range(tickers) :
            TradedUnits(i, t) # Zero =>
                /\ RLt(Zero, TradeAmount(i, t)) =>
                    /\ RMul(TradedUnits(i, t), QuoteUp(t)) = TradeAmount(i, t)
                    /\ RLe(IntRat(QuotedRow[t]), QuoteUp(t))
                /\ RLt(TradeAmount(i, t), Zero) =>
                    /\ RMul(TradedUnits(i, t), QuoteDown(t)) = TradeAmount(i, t)
                    /\ RLe(QuoteDown(t), IntRat(QuotedRow[t]))]_vars

\* With a slippage of 50% both instruments have been bought and then sold.
C17_Witness ==
    /\ pc = "loop"
    /\ slippage_bps = 5000
    /\ Len(calls) >= 2
    /\ calls[Len(calls) - 1][2] = [AAA |-> 1, BBB |-> 1]
    /\ Last(calls)[2] = [AAA |-> 0, BBB |-> 0]
    /\ trades[1] = 4
    /\ \A t \in Range(tickers) : positions[1][t][1] < 0

\* The traded notionals of an instance: traded units times slipped price, the
\* price of a buy for a positive trade amount and of a sell otherwise.
Notionals(i, trade_vals) ==
    [t \in Range(tickers) |->
        RMul(TradedUnits(i, t),
             IF RLt(Zero, trade_vals[t]) THEN QuoteUp(t) ELSE QuoteDown(t))]

\* The notionals of the first n tickers plus the commissions on them.
RECURSIVE TotalDebit(_, _, _)
TotalDebit(notional, comm, n) ==
    IF n = 0 THEN Zero
    ELSE RAdd(TotalDebit(notional, comm, n - 1),
              RAdd(notional[tickers[n]],
                   RMul(comm, RAbs(notional[tickers[n]]))))

\* C18: each executed trade takes from cash exactly the traded notional
\* (negative for a sell) plus a commission of commission_bps/10000 times the
\* absolute notional, and adds exactly the traded units (trade amount over
\* slipped price) to the instrument's units; nothing else changes cash or
\* the units of an instrument.
C18_TradeDebitsNotionalPlusCommission ==
    [][TradingStep =>
        \A i \in Instances :
            \E trade_vals \in {TradesValue(cash[i], positions[i], QuotedRow,
                                           Last(calls')[2], tickers)} :
            \E notional \in {Notionals(i, trade_vals)} :
                /\ RSub(cash[i], cash'[i])
                    = TotalDebit(notional, Commission(i), Len(tickers))
                /\ \A t \in Range(tickers) :
                    IF BelowThreshold(trade_vals[t])
                    THEN positions'[i][t] = positions[i][t]
                    ELSE notional[t] = trade_vals[t]
                /\ trades'[i] - trades[i]
                    = Cardinality({t \in Range(tickers) :
                                      ~BelowThreshold(trade_vals[t])})]_vars

\* With slippage and commission an instrument has been bought and then, at
\* the price 4, sold to a short position.
C18_Witness ==
    /\ pc = "loop"
    /\ slippage_bps = 5000
    /\ commission_bps[1] = 5000
    /\ Len(calls) >= 2
    /\ calls[Len(calls) - 1][2] = [AAA |-> 1]
    /\ Last(calls)[2] = [AAA |-> -1, BBB |-> 0]
    /\ prices_pd[Last(calls)[1]] = [AAA |-> 4, BBB |-> 1]
    /\ trades[1] >= 2

(***************************************************************************)
(* C19: the final valuation.                                               *)
(***************************************************************************)
\* C19: whenever run returns a result, the last entry of the returned equity
\* curve is dated at the panel's last trading date and is the final cash plus
\* the final units times the last date's prices, so it reflects the trades of
\* the last rebalance date, also when that is not the panel's last trading
\* day.
C19_LastEntryIsFinalValuation ==
    Returned =>
        \A i \in Instances :
            LET curve == result[i].equity_curve
                last == Max(Dates)
            IN  /\ Max(DOMAIN curve) = last
                /\ curve[last]
                    = RAdd(cash[i],
                           UnitsTimesPrice(Range(tickers), positions[i],
                                           prices_pd[last]))

\* run has returned after trading at a last rebalance date that is not the
\* panel's last trading day, and the prices have moved since.
C19_Witness ==
    /\ Returned
    /\ calls # <<>>
    /\ Last(calls)[1] = Last(rebalance_dates)
    /\ Last(calls)[2] = [AAA |-> 1, BBB |-> 1]
    /\ Last(rebalance_dates) < Max(Dates)
    /\ prices_pd[Last(rebalance_dates)] # prices_pd[Max(Dates)]
    /\ trades[1] > 0

\* run has returned after trading at a last rebalance date that is the
\* panel's last trading day.
C19_LastDayWitness ==
    /\ Returned
    /\ calls # <<>>
    /\ Last(calls)[1] = Max(Dates)
    /\ Last(calls)[2] = [AAA |-> 1, BBB |-> 1]
    /\ commission_bps[1] > 0
    /\ trades[1] > 0

(***************************************************************************)
(* C20: the cost of the trades.                                            *)
(***************************************************************************)
\* The portfolio value of an instance at the quoted prices, after the trades.
ValueAfterTrades(i) ==
    RAdd(cash'[i], UnitsTimesPrice(Range(tickers), positions'[i], QuotedRow))

\* C20: for positive prices, slippage_bps in [0, 10000) and commission_bps
\* >= 0 the trades of a rebalance never increase the portfolio value at that
\* date's quoted prices: the value after them is at most the value before,
\* and equal exactly when slippage and commission are both zero or no trade
\* is executed.
C20_TradesNeverIncreaseValue ==
    [][TradingStep =>
        \A i \in Instances :
            /\ RLe(ValueAfterTrades(i), ValueBeforeTrades(i))
            /\ ValueAfterTrades(i) = ValueBeforeTrades(i)
                <=> \/ slippage_bps = 0 /\ commission_bps[i] = 0
                    \/ trades'[i] = trades[i]]_vars

\* With slippage and without commission the first trades have left less than
\* the initial capital at the quoted prices.
C20_Witness ==
    /\ pc = "loop"
    /\ slippage_bps = 5000
    /\ commission_bps[1] = 0
    /\ Len(calls) = 1
    /\ calls[1][2] = [AAA |-> 1, BBB |-> 1]
    /\ trades[1] = 2
    /\ RLt(RAdd(cash[1], UnitsTimesPrice(Range(tickers), positions[1],
                                         prices_pd[calls[1][1]])),
           IntRat(initial_capital))

(***************************************************************************)
(* C21: run_backtest has no look-ahead.                                    *)
(***************************************************************************)
\* The common dates of the call, in the order of the prices frame.
CommonDates == SelectSeq(Index(prices), LAMBDA x : x \in FrameDates(signals))

\* The values of the row of a frame for a date.
RowAt(frame, date) ==
    frame.rows[CHOOSE j \in DOMAIN frame.rows : frame.rows[j].date = date].values

\* The sum over a set of tickers of the price return from one date to the
\* next times the signal weight given for the first of the two.
RECURSIVE LaggedReturn(_, _, _)
LaggedReturn(S, before, date) ==
    IF S = {} THEN Zero
    ELSE LET t == CHOOSE x \in S : TRUE
         IN  RAdd(RMul(RSub(Rat(RowAt(prices, date)[t],
                                RowAt(prices, before)[t]), One),
                       RowAt(signals, before)[t]),
                  LaggedReturn(S \ {t}, before, date))

\* The signals frame with the weights of one date replaced.
WithSignalAt(frame, date, row) ==
    [frame EXCEPT !.rows =
        [j \in DOMAIN frame.rows |->
            IF frame.rows[j].date = date
            THEN [date |-> date,
                  values |-> [t \in DOMAIN frame.rows[j].values |-> row[t]]]
            ELSE frame.rows[j]]]

\* C21: run_backtest has no look-ahead: the portfolio return on the k-th
\* common date is the sum over tickers of that date's price return times the
\* signal weight given for the previous common date, so the return on the
\* first common date is zero, the first equity-curve value is the initial
\* capital, and the signal of the last date never influences the result.
C21_NoLookAhead ==
    (run_backtest_result # Running /\ ColumnTickers(prices) # <<>>) =>
        LET common == CommonDates
            returns == run_backtest_result.returns
            curve == run_backtest_result.equity_curve
            tks == Range(ColumnTickers(prices))
        IN  /\ DOMAIN returns = DOMAIN common
            /\ \A k \in DOMAIN common :
                /\ returns[k][1] = common[k]
                /\ returns[k][2] = IF k = 1 THEN Zero
                                   ELSE LaggedReturn(tks, common[k - 1], common[k])
            /\ common # <<>> =>
                /\ curve[1][2] = IntRat(initial_capital)
                /\ \A row \in SignalRows :
                    RunBacktestOn(prices,
                                  WithSignalAt(signals, Last(common), row))
                        = run_backtest_result

\* run_backtest has returned for three common dates over which the prices
\* move and the signals differ, with a return other than zero.
C21_Witness ==
    /\ run_backtest_result # Running
    /\ ColumnTickers(prices) = AllTickers
    /\ Len(CommonDates) = 3
    /\ RowAt(signals, CommonDates[2]) # RowAt(signals, CommonDates[3])
    /\ RowAt(signals, CommonDates[1]) # RowAt(signals, CommonDates[2])
    /\ run_backtest_result.returns[2][2] # Zero
    /\ run_backtest_result.returns[3][2] # Zero

====
